---- MODULE Spec2Model ----
(***************************************************************************)
(* Model of app.py: the iDoklad blog article picker.                       *)
(*                                                                         *)
(* Text is a sequence of one-character strings.  Czech letters outside     *)
(* ASCII are written as a base letter plus a mark: "a'" is a-acute,        *)
(* "e^" is e-caron, "r^" r-caron, "n^" n-caron, "c^" c-caron, "u*" u-ring, *)
(* "i'" i-acute, "u'" u-acute, "e'" e-acute; an upper-case base letter     *)
(* gives the upper-case character ("N", "A'", ...).                        *)
(***************************************************************************)
EXTENDS Integers, Sequences, FiniteSets, TLC

VARIABLES
    pc,                 \* position of the pure-function harnesses: "call" / "done" / "ui"
    title, summary,     \* arguments of classify_article
    category,           \* its return value
    articles,           \* all_articles: list of (title, url, published, summary)
    history,            \* the script's in-memory history object
    sel_year, sel_month,\* the selectbox value
    selected_articles,  \* return value of select_articles_for_month
    today,              \* date.today()
    months_opts,        \* the options of the selectbox
    file,               \* content of HISTORY_FILE on disk
    feed,               \* what the RSS source serves right now
    click,              \* the widget that triggered the last script run
    outcome,            \* where the last script run ended
    prev_file,          \* HISTORY_FILE as it was when the last script run started
    loaded,             \* what load_history returned in the last script run
    shown,              \* links on the page at the moment of the click
    links,              \* links put into the e-mail body by the last run
    confirmed,          \* (key, url) pairs recorded since the last clear / corruption
    last                \* kind of the last step: "init", "run", "env"

vars == <<pc, title, summary, category, articles, history, sel_year, sel_month,
          selected_articles, today, months_opts, file, feed, click, outcome,
          prev_file, loaded, shown, links, confirmed, last>>

(***************************************************************************)
(* Configuration                                                           *)
(***************************************************************************)
MAX_ARTICLES == 4
MONTHS_TO_SHOW == 3

CATEGORY_ORDER == <<"ENGAGEMENT", "CONVERSION", "EDUCATIONAL", "SEASONAL">>

CATEGORY_KEYWORDS ==
    [ENGAGEMENT |-> << <<"t","i","p">>, <<"t","r","i","k">>,
                       <<"p","r^","i'","b","e^","h">>, <<"t","r","e","n","d">>,
                       <<"n","e","j">>, <<"i","n","s","p","i","r">> >>,
     CONVERSION |-> << <<"t","a","r","i","f">>, <<"f","u","n","k","c">>,
                       <<"p","r","e","m","i","u","m">>, <<"a","u","t","o","m","a","t">>,
                       <<"o","n","l","i","n","e"," ","p","l","a","t","b">>,
                       <<"A","P","I">>,
                       <<"p","r","o","p","o","j","e","n","i'">> >>,
     EDUCATIONAL |-> << <<"j","a","k">>, <<"p","r","u*","v","o","d","c","e">>,
                        <<"n","a'","v","o","d">>, <<"z","a","c^","i'","n","a","j">>,
                        <<"k","r","o","k">>,
                        <<"v","y","s","v","e^","t","l","e","n">> >>,
     SEASONAL |-> << <<"d","a","n^">>, <<"D","P","H">>,
                     <<"s","i","l","v","e","s","t","r">>, <<"v","a'","n","o">>,
                     <<"u","z","a'","v","e^","r">>,
                     <<"p","r^","i","z","n","a'","n","i'">>,
                     <<"l","e","d","e","n">>, <<"u'","n","o","r">>,
                     <<"b","r^","e","z","e","n">>, <<"d","u","b","e","n">>,
                     <<"k","v","e^","t","e","n">>, <<"c^","e","r","v","e","n">>,
                     <<"c^","e","r","v","e","n","e","c">>, <<"s","r","p","e","n">>,
                     <<"z","a'","r^","i'">>, <<"r^","i'","j","e","n">>,
                     <<"l","i","s","t","o","p","a","d">>,
                     <<"p","r","o","s","i","n","e","c">> >>]

(***************************************************************************)
(* str.lower()                                                             *)
(***************************************************************************)
UpperChars == <<"A","B","C","D","E","F","G","H","I","J","K","L","M","N","O","P",
                "Q","R","S","T","U","V","W","X","Y","Z",
                "A'","E^","R^","N^","C^","U*","I'","U'">>
LowerChars == <<"a","b","c","d","e","f","g","h","i","j","k","l","m","n","o","p",
                "q","r","s","t","u","v","w","x","y","z",
                "a'","e^","r^","n^","c^","u*","i'","u'">>

LowerChar(c) ==
    IF \E i \in 1..Len(UpperChars) : UpperChars[i] = c
    THEN LowerChars[CHOOSE i \in 1..Len(UpperChars) : UpperChars[i] = c]
    ELSE c

lower(s) == [i \in 1..Len(s) |-> LowerChar(s[i])]

(***************************************************************************)
(* re.search(kw, text) for a pattern without metacharacters: kw occurs in  *)
(* text as a contiguous run of characters.                                 *)
(***************************************************************************)
re_search(kw, text) ==
    \E i \in 1..(Len(text) - Len(kw) + 1) : SubSeq(text, i, i + Len(kw) - 1) = kw

(***************************************************************************)
(* classify_article: the text is lower-cased, the keywords are used as     *)
(* written.  "NONE" stands for Python's None.                              *)
(***************************************************************************)
SearchText(t, s) == lower(t \o <<" ">> \o s)

\* the same looking at the first keyword of the category only
KeywordHitFirstOnly(cat, text) == re_search(CATEGORY_KEYWORDS[cat][1], text)

KeywordHit(cat, text) ==
    \E k \in 1..Len(CATEGORY_KEYWORDS[cat]) : re_search(CATEGORY_KEYWORDS[cat][k], text)

classify_article(t, s) ==
    LET text == SearchText(t, s)
        hits == {i \in 1..Len(CATEGORY_ORDER) : KeywordHit(CATEGORY_ORDER[i], text)}
    IN  IF hits = {} THEN "NONE"
        ELSE CATEGORY_ORDER[CHOOSE i \in hits : \A j \in hits : i <= j]

(***************************************************************************)
(* datetime.date and timedelta                                             *)
(***************************************************************************)
Date(y, m, d) == [year |-> y, month |-> m, day |-> d]

IsLeap(y) == (y % 4 = 0) /\ ((y % 100 # 0) \/ (y % 400 = 0))

DaysInMonth(y, m) ==
    IF m = 2 THEN (IF IsLeap(y) THEN 29 ELSE 28)
    ELSE IF m \in {4, 6, 9, 11} THEN 30 ELSE 31

\* date.replace(day=d)
ReplaceDay(dt, d) == Date(dt.year, dt.month, d)

\* dt - timedelta(days=n), n >= 0
RECURSIVE MinusDays(_, _)
MinusDays(dt, n) ==
    IF n < dt.day THEN Date(dt.year, dt.month, dt.day - n)
    ELSE LET py == IF dt.month = 1 THEN dt.year - 1 ELSE dt.year
             pm == IF dt.month = 1 THEN 12 ELSE dt.month - 1
         IN  MinusDays(Date(py, pm, DaysInMonth(py, pm)), n - dt.day)

\* ordering of dates, used as the sort key
DateGreater(a, b) ==
    \/ a.year > b.year
    \/ a.year = b.year /\ a.month > b.month
    \/ a.year = b.year /\ a.month = b.month /\ a.day > b.day

(***************************************************************************)
(* months / months_opts (lines 199-200)                                    *)
(***************************************************************************)
\* the same without pinning the reference date to the 15th
MonthAnchorUnpinned(t, i) == ReplaceDay(MinusDays(t, 30 * i), 15)

MonthAnchor(t, i) == ReplaceDay(MinusDays(ReplaceDay(t, 15), 30 * i), 15)

MonthsOpts(t) ==
    [k \in 1..MONTHS_TO_SHOW |->
        LET dt == MonthAnchor(t, k - 1) IN <<dt.year, dt.month>>]

(***************************************************************************)
(* f"{year}-{month:02d}"                                                   *)
(***************************************************************************)
DigitChars == <<"0","1","2","3","4","5","6","7","8","9">>

RECURSIVE Digits(_)
Digits(n) ==
    IF n < 10 THEN <<DigitChars[n + 1]>>
    ELSE Digits(n \div 10) \o <<DigitChars[(n % 10) + 1]>>

PeriodKey(y, m) ==
    Digits(y) \o <<"-">> \o (IF m < 10 THEN <<"0">> \o Digits(m) ELSE Digits(m))

(***************************************************************************)
(* select_articles_for_month                                               *)
(***************************************************************************)
Article(t, u, d, s) == [title |-> t, url |-> u, published |-> d, summary |-> s]

Range(s) == {s[i] : i \in 1..Len(s)}

\* history.get(key, [])
HistoryGet(h, key) == IF key \in DOMAIN h THEN h[key] ELSE <<>>

\* the same with the history left out of the filter
UsedLinksIgnored(h, key) == {}

UsedLinks(h, key) == Range(HistoryGet(h, key))

RemoveAt(s, i) == SubSeq(s, 1, i - 1) \o SubSeq(s, i + 1, Len(s))

\* list.sort(key=published, reverse=True): stable, newest first
\* the same without reverse=True: stable, oldest first
RECURSIVE SortByDateAsc(_)
SortByDateAsc(s) ==
    IF s = <<>> THEN <<>>
    ELSE LET i == CHOOSE i \in 1..Len(s) :
                      /\ \A j \in 1..Len(s) : ~DateGreater(s[i].published, s[j].published)
                      /\ \A j \in 1..(i - 1) : s[j].published # s[i].published
         IN  <<s[i]>> \o SortByDateAsc(RemoveAt(s, i))

RECURSIVE SortByDateDesc(_)
SortByDateDesc(s) ==
    IF s = <<>> THEN <<>>
    ELSE LET i == CHOOSE i \in 1..Len(s) :
                      /\ \A j \in 1..Len(s) : ~DateGreater(s[j].published, s[i].published)
                      /\ \A j \in 1..(i - 1) : s[j].published # s[i].published
         IN  <<s[i]>> \o SortByDateDesc(RemoveAt(s, i))

InPool(a, used, y, m) ==
    a.published.year = y /\ a.published.month = m /\ a.url \notin used

Pool(arts, h, y, m) ==
    LET used == UsedLinks(h, PeriodKey(y, m))
    IN  SortByDateDesc(SelectSeq(arts, LAMBDA a : InPool(a, used, y, m)))

NoSlots == [c \in Range(CATEGORY_ORDER) |-> <<>>]

\* the loop of lines 144-149; a slot holds <<>> (None) or <<article>>
RECURSIVE Walk(_, _, _, _)
Walk(pool, i, selected, others) ==
    IF i > Len(pool) THEN [selected |-> selected, others |-> others]
    ELSE LET art == pool[i]
             c == classify_article(art.title, art.summary)
             cat == IF c = "NONE" THEN "OTHER" ELSE c
         IN  IF cat \in DOMAIN selected /\ selected[cat] = <<>>
             THEN Walk(pool, i + 1, [selected EXCEPT ![cat] = <<art>>], others)
             ELSE Walk(pool, i + 1, selected, Append(others, art))

RECURSIVE Concat(_)
Concat(ss) == IF ss = <<>> THEN <<>> ELSE Head(ss) \o Concat(Tail(ss))

\* lines 152-157
RECURSIVE FillUp(_, _)
FillUp(final, others) ==
    IF others = <<>> \/ Len(final) >= MAX_ARTICLES THEN final
    ELSE FillUp(Append(final, Head(others)), Tail(others))

select_articles_for_month(arts, h, y, m) ==
    LET w == Walk(Pool(arts, h, y, m), 1, NoSlots, <<>>)
        slots == Concat([k \in 1..Len(CATEGORY_ORDER) |-> w.selected[CATEGORY_ORDER[k]]])
        final == FillUp(slots, w.others)
    IN  SubSeq(final, 1, IF Len(final) < MAX_ARTICLES THEN Len(final) ELSE MAX_ARTICLES)

Urls(arts) == [i \in 1..Len(arts) |-> arts[i].url]

(***************************************************************************)
(* Values shared by the harnesses below                                    *)
(***************************************************************************)
classifyVars == <<title, summary, category>>
selectVars == <<articles, history, sel_year, sel_month, selected_articles>>
monthsVars == <<today, months_opts>>
uiVars == <<file, feed, click, outcome, prev_file, loaded, shown, links, confirmed, last>>

Absent == [kind |-> "absent", value |-> <<>>]

\* the empty dict, as returned by load_history
EmptyDict == [raised |-> FALSE, type |-> "dict", value |-> <<>>]

ClassifyIdle == title = <<>> /\ summary = <<>> /\ category = "NONE"
SelectIdle ==
    /\ articles = <<>> /\ history = <<>> /\ sel_year = 2024 /\ sel_month = 3
    /\ selected_articles = <<>>
MonthsIdle == today = Date(2024, 3, 15) /\ months_opts = <<>>
UiIdle ==
    /\ file = Absent /\ feed = <<>> /\ click = "none" /\ outcome = "start"
    /\ prev_file = Absent /\ loaded = EmptyDict /\ shown = <<>> /\ links = <<>> /\ confirmed = {}
    /\ last = "init"

(***************************************************************************)
(* Texts                                                                   *)
(***************************************************************************)
T_JakNaDPH == <<"J","a","k"," ","n","a"," ","D","P","H">>
T_TipPro == <<"T","i","p"," ","p","r","o"," ","p","o","d","n","i","k","a","t","e","l","e">>
T_Premium == <<"P","r","e","m","i","u","m"," ","f","u","n","k","c","e">>
T_Navod == <<"N","a'","v","o","d"," ","k","r","o","k"," ","z","a"," ","k","r","o","k","e","m">>
T_Novinky == <<"N","o","v","i","n","k","y">>
T_TipyTriky == <<"T","i","p","y"," ","a"," ","t","r","i","k","y">>
T_Tarify == <<"T","a","r","i","f","y">>
T_SazbaDPH == <<"S","a","z","b","a"," ","D","P","H">>
T_API == <<"N","o","v","e'"," ","A","P","I">>

AllKeywords ==
    UNION {Range(CATEGORY_KEYWORDS[c]) : c \in Range(CATEGORY_ORDER)}

Titles ==
    AllKeywords \cup {lower(k) : k \in AllKeywords}
    \cup {T_JakNaDPH, T_TipPro, T_Premium, T_Navod, T_Novinky, T_TipyTriky,
          T_Tarify, T_SazbaDPH, T_API, <<>>}

Summaries == {<<>>, <<"t","r","i","k">>, <<"d","p","h">>, <<"x">>}

(***************************************************************************)
(* Harness for classify_article                                            *)
(***************************************************************************)
InitClassify ==
    /\ pc = "call"
    /\ title \in Titles /\ summary \in Summaries /\ category = "NONE"
    /\ SelectIdle /\ MonthsIdle /\ UiIdle

Classify ==
    /\ pc = "call"
    /\ category' = classify_article(title, summary)
    /\ pc' = "done"
    /\ UNCHANGED <<title, summary, selectVars, monthsVars, uiVars>>

NextClassify == Classify

SpecClassify == InitClassify /\ [][NextClassify]_vars

(***************************************************************************)
(* Harness for select_articles_for_month                                   *)
(***************************************************************************)
MaxFeed == 5

D(y, m, d) == Date(y, m, d)

Universe ==
    {Article(T_JakNaDPH, "u1", D(2024, 3, 5), <<>>),
     Article(T_TipPro, "u2", D(2024, 3, 10), <<>>),
     Article(T_Premium, "u3", D(2024, 3, 2), <<>>),
     Article(T_Navod, "u4", D(2024, 3, 1), <<>>),
     Article(T_Novinky, "u5", D(2024, 3, 10), <<>>),
     Article(T_TipyTriky, "u2", D(2024, 3, 7), <<>>),
     Article(T_Tarify, "u7", D(2024, 2, 20), <<>>)}

Feeds ==
    {f \in UNION {[1..n -> Universe] : n \in 0..MaxFeed} :
        \A i, j \in 1..Len(f) : i # j => f[i] # f[j]}

K2403 == PeriodKey(2024, 3)
K2402 == PeriodKey(2024, 2)

Histories ==
    {<<>>,
     (K2403 :> <<"u2">>),
     (K2403 :> <<"u1", "u3">>) @@ (K2402 :> <<"u7">>)}

Periods == {<<2024, 3>>, <<2024, 2>>}

InitSelect ==
    /\ pc = "call"
    /\ articles \in Feeds
    /\ history \in Histories
    /\ \E p \in Periods : sel_year = p[1] /\ sel_month = p[2]
    /\ selected_articles = <<>>
    /\ ClassifyIdle /\ MonthsIdle /\ UiIdle

Select ==
    /\ pc = "call"
    /\ selected_articles' = select_articles_for_month(articles, history, sel_year, sel_month)
    /\ pc' = "done"
    /\ UNCHANGED <<articles, history, sel_year, sel_month, classifyVars, monthsVars, uiVars>>

NextSelect == Select

SpecSelect == InitSelect /\ [][NextSelect]_vars

(***************************************************************************)
(* Harness for the period enumeration                                      *)
(***************************************************************************)
Years == {1900, 2000, 2023, 2024, 2025}

Days == {Date(y, m, d) : y \in Years, m \in 1..12, d \in 1..31}

InitMonths ==
    /\ pc = "call"
    /\ today \in {dt \in Days : dt.day <= DaysInMonth(dt.year, dt.month)}
    /\ months_opts = <<>>
    /\ ClassifyIdle /\ SelectIdle /\ UiIdle

Enumerate ==
    /\ pc = "call"
    /\ months_opts' = MonthsOpts(today)
    /\ pc' = "done"
    /\ UNCHANGED <<today, classifyVars, selectVars, uiVars>>

NextMonths == Enumerate

SpecMonths == InitMonths /\ [][NextMonths]_vars

(***************************************************************************)
(* Properties of select_articles_for_month (SpecSelect)                    *)
(***************************************************************************)
NoRepeatedUrl(arts) ==
    \A i, j \in 1..Len(arts) : i # j => arts[i].url # arts[j].url

\* C1: the list returned by select_articles_for_month contains no URL more
\* than once, for every article list (two entries may share a URL), every
\* history and every period.
C1_NoDuplicateUrls == pc = "done" => NoRepeatedUrl(selected_articles)

ScenarioArticles ==
    {Article(T_JakNaDPH, "u1", D(2024, 3, 5), <<>>),
     Article(T_TipPro, "u2", D(2024, 3, 10), <<>>),
     Article(T_Premium, "u3", D(2024, 3, 2), <<>>),
     Article(T_Navod, "u4", D(2024, 3, 1), <<>>)}

ScenarioCall ==
    /\ Len(articles) = 4 /\ Range(articles) = ScenarioArticles
    /\ history = <<>> /\ sel_year = 2024 /\ sel_month = 3

\* C3 as stated: in the scenario T1 is SEASONAL, T2 ENGAGEMENT, T3 CONVERSION,
\* T4 EDUCATIONAL and the selection is exactly [u2, u3, u4, u1].
C3_AsStated ==
    (pc = "done" /\ ScenarioCall) =>
        /\ classify_article(T_JakNaDPH, <<>>) = "SEASONAL"
        /\ classify_article(T_TipPro, <<>>) = "ENGAGEMENT"
        /\ classify_article(T_Premium, <<>>) = "CONVERSION"
        /\ classify_article(T_Navod, <<>>) = "EDUCATIONAL"
        /\ Urls(selected_articles) = <<"u2", "u3", "u4", "u1">>

\* C3 amended: in the scenario T1 is EDUCATIONAL (its text contains "jak"),
\* T2 ENGAGEMENT, T3 CONVERSION, T4 EDUCATIONAL, and the selection is exactly
\* [u2, u3, u1, u4]: T1 takes the EDUCATIONAL slot, T4 is overflow.
C3_Scenario ==
    (pc = "done" /\ ScenarioCall) =>
        /\ classify_article(T_JakNaDPH, <<>>) = "EDUCATIONAL"
        /\ classify_article(T_TipPro, <<>>) = "ENGAGEMENT"
        /\ classify_article(T_Premium, <<>>) = "CONVERSION"
        /\ classify_article(T_Navod, <<>>) = "EDUCATIONAL"
        /\ Urls(selected_articles) = <<"u2", "u3", "u1", "u4">>

C3_Witness ==
    /\ pc = "done" /\ ScenarioCall
    /\ Urls(articles) = <<"u1", "u2", "u3", "u4">>
    /\ Len(selected_articles) = 4

CatIdx(c) == CHOOSE k \in 1..Len(CATEGORY_ORDER) : CATEGORY_ORDER[k] = c

Min(a, b) == IF a < b THEN a ELSE b

\* the categories of a pool, position by position
PoolCats(pool) ==
    [k \in 1..Len(pool) |-> classify_article(pool[k].title, pool[k].summary)]

\* the positions holding the first pool article of some category
Firsts(cats) ==
    {k \in 1..Len(cats) : cats[k] # "NONE" /\ \A j \in 1..(k - 1) : cats[j] # cats[k]}

\* the place in the untruncated result that the description gives to pool[i]
SlotOf(cats, firsts, i) ==
    IF i \in firsts
    THEN 1 + Cardinality({k \in firsts : CatIdx(cats[k]) < CatIdx(cats[i])})
    ELSE Cardinality(firsts) + 1 + Cardinality({k \in 1..(i - 1) : k \notin firsts})

\* C9: the result is, per category in priority order, the newest pool article
\* of that category, then the remaining pool articles in pool order, cut to
\* MAX_ARTICLES; the pool is the unused articles of the period, newest first;
\* the length is min(4, size of the pool).
C9_SlotsThenOverflow ==
    pc = "done" =>
        LET used == Range(HistoryGet(history, PeriodKey(sel_year, sel_month)))
            pool == Pool(articles, history, sel_year, sel_month)
            cats == PoolCats(pool)
            firsts == Firsts(cats)
            slot == [i \in 1..Len(pool) |-> SlotOf(cats, firsts, i)]
        IN  /\ Range(pool) = {a \in Range(articles) :
                                 /\ a.published.year = sel_year
                                 /\ a.published.month = sel_month
                                 /\ a.url \notin used}
            /\ Len(pool) = Cardinality(Range(pool))
            /\ \A i, j \in 1..Len(pool) :
                   i < j => ~DateGreater(pool[j].published, pool[i].published)
            /\ Len(selected_articles) = Min(MAX_ARTICLES, Len(pool))
            /\ \A i \in 1..Len(pool) :
                   slot[i] <= MAX_ARTICLES => selected_articles[slot[i]] = pool[i]

\* five pool articles, a second article of a filled category in the result,
\* and one pool article cut off
C9_Witness ==
    /\ pc = "done"
    /\ Len(Pool(articles, history, sel_year, sel_month)) = 5
    /\ Len(selected_articles) = MAX_ARTICLES
    /\ \E i, j \in 1..MAX_ARTICLES :
           /\ i < j
           /\ classify_article(selected_articles[i].title, <<>>) = "ENGAGEMENT"
           /\ classify_article(selected_articles[j].title, <<>>) = "ENGAGEMENT"

(***************************************************************************)
(* Properties of classify_article (SpecClassify)                           *)
(***************************************************************************)
\* first category, in priority order, one of whose keywords occurs in the
\* text when case is ignored on both sides
CaseInsensitiveCategory(t, s) ==
    LET text == lower(t \o <<" ">> \o s)
        hit(c) == \E kw \in Range(CATEGORY_KEYWORDS[c]) : re_search(lower(kw), text)
        hits == {i \in 1..Len(CATEGORY_ORDER) : hit(CATEGORY_ORDER[i])}
    IN  IF hits = {} THEN "NONE"
        ELSE CATEGORY_ORDER[CHOOSE i \in hits : \A j \in hits : i <= j]

\* C4: classify_article returns the first category, in priority order, one of
\* whose keywords occurs case-insensitively in title + " " + summary, and None
\* only when no keyword of any category occurs case-insensitively.
C4_CaseInsensitiveFirstMatch ==
    pc = "done" => category = CaseInsensitiveCategory(title, summary)

(***************************************************************************)
(* Properties of the period enumeration (SpecMonths)                       *)
(***************************************************************************)
\* the calendar month k months before month m of year y
MonthsBefore(y, m, k) ==
    LET idx == 12 * y + (m - 1) - k IN <<idx \div 12, (idx % 12) + 1>>

\* C8: the enumeration yields exactly MONTHS_TO_SHOW pairs, the k-th being the
\* calendar month k months before the reference month.
C8_ConsecutiveMonths ==
    pc = "done" =>
        /\ Len(months_opts) = MONTHS_TO_SHOW
        /\ \A k \in 0..(MONTHS_TO_SHOW - 1) :
               months_opts[k + 1] = MonthsBefore(today.year, today.month, k)

C8_Witness ==
    /\ pc = "done" /\ today = Date(2025, 1, 31)
    /\ months_opts = << <<2025, 1>>, <<2024, 12>>, <<2024, 11>> >>

(***************************************************************************)
(* HISTORY_FILE and the history functions                                  *)
(*                                                                         *)
(* kind "json": a JSON object mapping period keys to lists of URLs;        *)
(* "garbage": text json.loads rejects (empty or cut-off text included);    *)
(* "bad_bytes": bytes that are not UTF-8; "json_list": a top-level JSON    *)
(* list (value holds it); "json_badvalue": a JSON object with a number     *)
(* under a key.                                                            *)
(***************************************************************************)
Json(h) == [kind |-> "json", value |-> h]
Garbage == [kind |-> "garbage", value |-> <<>>]
BadBytes == [kind |-> "bad_bytes", value |-> <<>>]
JsonList(l) == [kind |-> "json_list", value |-> l]
JsonBadValue == [kind |-> "json_badvalue", value |-> <<>>]

Malformed == {Garbage, BadBytes, JsonList(<<>>), JsonList(<<"x">>), JsonBadValue}

\* lines 73-79: only json.JSONDecodeError is caught; whatever json.loads
\* returns is returned unchecked
load_history(f) ==
    CASE f.kind = "absent" -> EmptyDict
      [] f.kind = "json" -> [raised |-> FALSE, type |-> "dict", value |-> f.value]
      [] f.kind = "garbage" -> EmptyDict
      [] f.kind = "bad_bytes" -> [raised |-> TRUE, type |-> "none", value |-> <<>>]
      [] f.kind = "json_list" -> [raised |-> FALSE, type |-> "list", value |-> f.value]
      [] f.kind = "json_badvalue" -> [raised |-> FALSE, type |-> "baddict", value |-> <<>>]

\* lines 82-83, the write completed
save_history(data) == Json(data)

\* lines 86-87
clear_history == Absent

\* line 231: history.setdefault(key, []).extend(links)
Extend(h, key, ls) ==
    [k \in DOMAIN h \cup {key} |-> IF k = key THEN HistoryGet(h, key) \o ls ELSE h[k]]

(***************************************************************************)
(* fetch_blog_articles                                                     *)
(* An entry without a link has url = "", one without a parseable date has  *)
(* published = NoDate.                                                     *)
(***************************************************************************)
NoDate == Date(0, 0, 0)

fetch_blog_articles(entries) ==
    SelectSeq(entries, LAMBDA e : e.url # "" /\ e.published # NoDate)

(***************************************************************************)
(* One run of the script, top to bottom (lines 163-236).                   *)
(* f: HISTORY_FILE, net_ok: whether the feed could be fetched, entries:    *)
(* the feed's entries, clk: the widget that triggered the run, ym: the     *)
(* selectbox value.                                                        *)
(***************************************************************************)
\* the same with the e-mail branch taken on every run
ConfirmClickedAlways(clk) == TRUE

\* line 220: the button reports the click

ConfirmClicked(clk) == clk = "confirm"

\* lines 175-184: the sidebar listing walks history.keys() and each value
SidebarRaises(ld) ==
    \/ ld.type = "list" /\ ld.value # <<>>
    \/ ld.type = "baddict"

Stopped(o, f, ld) ==
    [outcome |-> o, file |-> f, loaded |-> ld, articles |-> <<>>, history |-> <<>>,
     selected |-> <<>>, links |-> <<>>]

\* lines 211-236: the listing and the e-mail button
AfterSelect(f, ld, arts, sel, clk, ym) ==
    IF sel = <<>> THEN
        [Stopped("empty", f, ld) EXCEPT !.articles = arts, !.history = ld.value]
    ELSE IF ConfirmClicked(clk) THEN
        [outcome |-> "confirmed",
         file |-> save_history(Extend(ld.value, PeriodKey(ym[1], ym[2]), Urls(sel))),
         loaded |-> ld, articles |-> arts,
         history |-> Extend(ld.value, PeriodKey(ym[1], ym[2]), Urls(sel)),
         selected |-> sel, links |-> Urls(sel)]
    ELSE
        [outcome |-> "displayed", file |-> f, loaded |-> ld, articles |-> arts,
         history |-> ld.value, selected |-> sel, links |-> <<>>]

\* lines 198-208: history.get fails on anything but a dict
AfterFetch(f, ld, arts, clk, ym) ==
    IF ld.type # "dict" THEN
        [Stopped("exception_select", f, ld) EXCEPT !.articles = arts]
    ELSE AfterSelect(f, ld, arts,
                     select_articles_for_month(arts, ld.value, ym[1], ym[2]), clk, ym)

\* lines 167-196
AfterLoad(f, ld, net_ok, entries, clk, ym) ==
    IF ld.raised THEN Stopped("exception_load", f, ld)
    ELSE IF clk = "clear" THEN Stopped("cleared", clear_history, ld)
    ELSE IF SidebarRaises(ld) THEN Stopped("exception_sidebar", f, ld)
    ELSE IF clk = "refresh" THEN Stopped("rerun", f, ld)
    ELSE IF ~net_ok THEN Stopped("fetch_error", f, ld)
    ELSE AfterFetch(f, ld, fetch_blog_articles(entries), clk, ym)

ScriptRun(f, net_ok, entries, clk, ym) ==
    AfterLoad(f, load_history(f), net_ok, entries, clk, ym)

\* which widgets the page left by a run carries
HasClearButton(o) == o \notin {"start", "exception_load", "crashed", "cleared", "rerun"}
HasRefreshButton(o) == o \in {"fetch_error", "exception_select", "empty", "displayed", "confirmed"}
HasSelectbox(o) == o \in {"exception_select", "empty", "displayed", "confirmed"}
HasConfirmButton(o) == o \in {"displayed", "confirmed"}

ReachedSelectbox(o) == o \in {"exception_select", "empty", "displayed", "confirmed", "crashed"}

KeysOf(ym, ls) == {<<PeriodKey(ym[1], ym[2]), ls[i]>> : i \in 1..Len(ls)}

\* the run as a step of the session; the ghost variables are kept here
Pass(clk, ym, net_ok) ==
    \E r \in {ScriptRun(file, net_ok, feed, clk, ym)} :
        /\ click' = clk
        /\ outcome' = r.outcome
        /\ prev_file' = file
        /\ file' = r.file
        /\ loaded' = r.loaded
        /\ articles' = r.articles
        /\ history' = r.history
        /\ selected_articles' = r.selected
        /\ links' = r.links
        /\ months_opts' = IF ReachedSelectbox(r.outcome) THEN MonthsOpts(today) ELSE months_opts
        /\ sel_year' = ym[1] /\ sel_month' = ym[2]
        /\ shown' = IF HasConfirmButton(outcome) THEN Urls(selected_articles) ELSE <<>>
        /\ confirmed' = IF r.outcome = "cleared" THEN {}
                        ELSE confirmed \cup KeysOf(ym, r.links)
        /\ last' = "run"
        /\ UNCHANGED <<pc, today, feed, classifyVars>>

CurrentYm == <<sel_year, sel_month>>

\* a browser opens the page: a new session with default widget values
PageLoad ==
    /\ pc = "ui"
    /\ \E net_ok \in BOOLEAN : Pass("none", MonthsOpts(today)[1], net_ok)

\* rerun() after the clear button or the refresh button (lines 173, 189)
AutoRerun ==
    /\ pc = "ui" /\ outcome \in {"cleared", "rerun"}
    /\ \E net_ok \in BOOLEAN : Pass("none", CurrentYm, net_ok)

ClickClear ==
    /\ pc = "ui" /\ HasClearButton(outcome)
    /\ \E net_ok \in BOOLEAN : Pass("clear", CurrentYm, net_ok)

ClickRefresh ==
    /\ pc = "ui" /\ HasRefreshButton(outcome)
    /\ \E net_ok \in BOOLEAN : Pass("refresh", CurrentYm, net_ok)

ChooseMonth ==
    /\ pc = "ui" /\ HasSelectbox(outcome)
    /\ \E k \in 1..Len(months_opts), net_ok \in BOOLEAN :
           /\ months_opts[k] # CurrentYm
           /\ Pass("select", months_opts[k], net_ok)

ClickConfirm ==
    /\ pc = "ui" /\ HasConfirmButton(outcome)
    /\ \E net_ok \in BOOLEAN : Pass("confirm", CurrentYm, net_ok)

\* the process dies inside write_text (line 83), which truncates the file
\* and then writes: the file keeps its old content, is cut off, or is complete
CrashInSave ==
    /\ pc = "ui" /\ HasConfirmButton(outcome)
    /\ \E r \in {ScriptRun(file, TRUE, feed, "confirm", CurrentYm)} :
           /\ r.outcome = "confirmed"
           /\ file' \in {file, Garbage, r.file}
           /\ click' = "confirm"
           /\ outcome' = "crashed"
           /\ prev_file' = file
           /\ loaded' = r.loaded
           /\ articles' = r.articles
           /\ history' = r.history
           /\ selected_articles' = r.selected
           /\ links' = r.links
           /\ months_opts' = MonthsOpts(today)
           /\ shown' = Urls(selected_articles)
           /\ confirmed' = IF file' = r.file THEN confirmed \cup KeysOf(CurrentYm, r.links)
                           ELSE IF file' = Garbage THEN {}
                           ELSE confirmed
           /\ last' = "run"
           /\ UNCHANGED <<pc, today, feed, sel_year, sel_month, classifyVars>>

(***************************************************************************)
(* The surroundings: the feed's content changes; the history file is       *)
(* damaged from outside.                                                   *)
(***************************************************************************)
A1 == Article(T_JakNaDPH, "u1", D(2024, 3, 5), <<>>)
A2 == Article(T_TipPro, "u2", D(2024, 3, 10), <<>>)
A3 == Article(T_Premium, "u3", D(2024, 3, 2), <<>>)
A4 == Article(T_Navod, "u4", D(2024, 3, 1), <<>>)
A5 == Article(T_Novinky, "u5", D(2024, 3, 10), <<>>)
A6 == Article(T_TipyTriky, "u2", D(2024, 3, 7), <<>>)
A7 == Article(T_Tarify, "u7", D(2024, 2, 20), <<>>)
NoLink == Article(T_API, "", D(2024, 3, 9), <<>>)
Undated == Article(T_SazbaDPH, "u8", NoDate, <<>>)

FeedChoices ==
    {<<>>,
     <<A1, A2, A3, A4>>,
     <<A2, NoLink, A5, A6, A1, Undated, A3, A4, A7>>}

FeedChange ==
    /\ pc = "ui"
    /\ feed' \in FeedChoices \ {feed}
    /\ last' = "env"
    /\ UNCHANGED <<pc, classifyVars, selectVars, monthsVars, file, click, outcome,
                   prev_file, loaded, shown, links, confirmed>>

CorruptFile ==
    /\ pc = "ui"
    /\ file' \in Malformed \ {file}
    /\ confirmed' = {}
    /\ last' = "env"
    /\ UNCHANGED <<pc, classifyVars, selectVars, monthsVars, feed, click, outcome,
                   prev_file, loaded, shown, links>>

Init ==
    /\ pc = "ui"
    /\ ClassifyIdle /\ SelectIdle /\ MonthsIdle /\ UiIdle

Next ==
    \/ PageLoad
    \/ AutoRerun
    \/ ClickClear
    \/ ClickRefresh
    \/ ChooseMonth
    \/ ClickConfirm
    \/ CrashInSave
    \/ FeedChange
    \/ CorruptFile

Spec == Init /\ [][Next]_vars

(***************************************************************************)
(* Properties of the session (Spec)                                        *)
(***************************************************************************)
ReachedSelection(o) == o \in {"empty", "displayed", "confirmed", "crashed"}

\* C2: a URL recorded for a period key by an earlier confirmed run is not in
\* any later selection for that period, and so is not recorded again under
\* that key, as long as the history is neither cleared nor corrupted.
C2_NoRepeatAcrossRuns ==
    [][(last' = "run" /\ ReachedSelection(outcome')) =>
          \A i \in 1..Len(selected_articles') :
              <<PeriodKey(sel_year', sel_month'), selected_articles'[i].url>> \notin confirmed]_vars

\* a second confirmation for a period whose earlier links are still in the feed
C2_Witness ==
    /\ last = "run" /\ outcome = "confirmed" /\ links # <<>>
    /\ \E p \in confirmed :
           /\ p[1] = PeriodKey(sel_year, sel_month)
           /\ p[2] \notin Range(links)
           /\ \E a \in Range(articles) :
                  /\ a.url = p[2]
                  /\ a.published.year = sel_year /\ a.published.month = sel_month

Exceptions == {"exception_load", "exception_sidebar", "exception_select"}

\* C5: whenever HISTORY_FILE is absent or malformed in any way, load_history
\* returns an empty record and the run goes on without an exception.
C5_MalformedIsEmpty ==
    (last = "run" /\ prev_file \in Malformed \cup {Absent}) =>
        /\ loaded = EmptyDict
        /\ outcome \notin Exceptions

\* C6: after a crash during save_history the file is either the complete
\* previous content or the complete new content.
C6_SaveIsAtomic ==
    (last = "run" /\ outcome = "crashed") =>
        \/ file = prev_file
        \/ file = Json(history)

\* C7: a run in which the fetch fails leaves HISTORY_FILE as it was, and so
\* does every run triggered by anything but the confirm or the clear button.
C7_HistoryOnlyOnConfirm ==
    last = "run" =>
        /\ outcome = "fetch_error" => file = prev_file
        /\ click \notin {"confirm", "clear"} => file = prev_file

\* the confirm button clicked with a non-empty history, and the fetch failed
C7_Witness ==
    /\ last = "run" /\ outcome = "fetch_error" /\ click = "confirm"
    /\ file.kind = "json" /\ DOMAIN file.value # {}
    /\ file = prev_file

\* C10: the links a confirm click records and mails are the links of the
\* selection that was on the page when the button was clicked, in that order.
C10_RecordsWhatWasShown ==
    (last = "run" /\ outcome = "confirmed") => links = shown

====
